---- MODULE Spec2Model ----
(***************************************************************************)
(* Sheet-cutting planner: the MaxRects (Best-Short-Side-Fit) bin, the      *)
(* uniform-width strip pre-pass and the multi-sheet orchestrator           *)
(* (src/script.js and its strip-mode variant src/unnamed/part_001), and   *)
(* the strategy packer of src/unnamed/part_002.                            *)
(*                                                                         *)
(* Lengths are integers counting millionths of an inch, so that every      *)
(* tolerance of the code (1e-6, 1e-4, 0.01, 1/32) is a whole number and    *)
(* the arithmetic of the code is exact.                                    *)
(***************************************************************************)
EXTENDS Integers, Sequences, FiniteSets, TLC

\* ------------------------------------------------------------------ bounds
MaxRecords == 2
BigQty == 202
MaxInserts == 3
MaxDetectQty == 10
MaxIterations == 8

\* ------------------------------------------------------------------ config
sheetWidth == 48000000
sheetHeight == 96000000
stripModeAuto == TRUE
stripWidthTolerance == 31250
Infinity == 2000000000
SheetCeiling == 200
DistinctCap == 6
KerfValues == {0, 125000}

\* Idiom used below: CHOOSE r \in { F(v) : v \in {e} } : TRUE is F(e) with e
\* computed once, the way the code computes a local before using it.

Max2(a, b) == IF a >= b THEN a ELSE b
Min2(a, b) == IF a <= b THEN a ELSE b
Abs(a) == IF a < 0 THEN -a ELSE a

\* ------------------------------------------------------------ MaxRects core
Null == [x |-> -1, y |-> -1, width |-> -1, height |-> -1]

\* a fit test that looks at the width only
_fitsAcross(w, h, rect) == w <= rect.width

_fits(w, h, rect) == w <= rect.width /\ h <= rect.height

\* an overlap test that never sees the placed node reach a free rectangle
_overlapsNever(a, b) == FALSE

_overlaps(a, b) ==
  ~(a.x + a.width <= b.x \/ a.x >= b.x + b.width
      \/ a.y + a.height <= b.y \/ a.y >= b.y + b.height)

_containedIn(a, b) ==
  /\ a.x >= b.x /\ a.y >= b.y
  /\ a.x + a.width <= b.x + b.width
  /\ a.y + a.height <= b.y + b.height

\* a split whose left and right rectangles keep the full height of `free`
_splitFreeNodeTall(free, used) ==
  (IF used.y + used.height < free.y + free.height
   THEN <<[x |-> free.x, y |-> used.y + used.height, width |-> free.width,
           height |-> (free.y + free.height) - (used.y + used.height)]>>
   ELSE <<>>)
  \o (IF used.x + used.width < free.x + free.width
      THEN <<[x |-> used.x + used.width, y |-> free.y,
              width |-> (free.x + free.width) - (used.x + used.width),
              height |-> free.height]>>
      ELSE <<>>)

\* the up to four rectangles of `free` around `used`, in push order
_splitFreeNode(free, used) ==
  LET top == Max2(free.y, used.y)
      bot == Min2(free.y + free.height, used.y + used.height)
      above == IF used.y > free.y /\ used.y < free.y + free.height
               THEN <<[x |-> free.x, y |-> free.y, width |-> free.width,
                       height |-> used.y - free.y]>>
               ELSE <<>>
      below == IF used.y + used.height < free.y + free.height
               THEN <<[x |-> free.x, y |-> used.y + used.height, width |-> free.width,
                       height |-> (free.y + free.height) - (used.y + used.height)]>>
               ELSE <<>>
      left  == IF used.x > free.x /\ used.x < free.x + free.width
               THEN <<[x |-> free.x, y |-> top, width |-> used.x - free.x,
                       height |-> bot - top]>>
               ELSE <<>>
      right == IF used.x + used.width < free.x + free.width
               THEN <<[x |-> used.x + used.width, y |-> top,
                       width |-> (free.x + free.width) - (used.x + used.width),
                       height |-> bot - top]>>
               ELSE <<>>
  IN above \o below \o left \o right

RemoveAt(s, k) == SubSeq(s, 1, k - 1) \o SubSeq(s, k + 1, Len(s))

\* the two nested loops of _pruneFreeList, positions i < j (1-based)
RECURSIVE PruneFrom(_, _, _)
PruneFrom(list, i, j) ==
  IF i > Len(list) THEN list
  ELSE IF j > Len(list) THEN PruneFrom(list, i + 1, i + 2)
  ELSE IF _containedIn(list[i], list[j])
       THEN CHOOSE r \in { PruneFrom(l, i, i + 1) : l \in {RemoveAt(list, i)} } : TRUE
  ELSE IF _containedIn(list[j], list[i])
       THEN CHOOSE r \in { PruneFrom(l, i, j) : l \in {RemoveAt(list, j)} } : TRUE
  ELSE PruneFrom(list, i, j + 1)

_pruneFreeList(list) == PruneFrom(list, 1, 2)

RECURSIVE SplitAll(_, _, _)
SplitAll(freeRects, consume, k) ==
  IF k > Len(freeRects) THEN <<>>
  ELSE (IF ~_overlaps(consume, freeRects[k]) THEN <<freeRects[k]>>
        ELSE _splitFreeNode(freeRects[k], consume))
       \o SplitAll(freeRects, consume, k + 1)

\* a placement that leaves the old rectangles in the list and prunes nothing
_placeKeep(freeRects, kerf, node) ==
  freeRects \o SplitAll(freeRects,
                        [x |-> node.x, y |-> node.y,
                         width |-> node.width + kerf, height |-> node.height + kerf], 1)

\* the free list after placing node
_place(freeRects, kerf, node) ==
  LET consume == [x |-> node.x, y |-> node.y,
                  width |-> node.width + kerf, height |-> node.height + kerf]
  IN CHOOSE r \in { _pruneFreeList(l) : l \in {SplitAll(freeRects, consume, 1)} } : TRUE

\* a replacement test that lets a later candidate of equal score win
BetterOrTie(shortSide, longSide, best) ==
  shortSide < best.short \/ (shortSide = best.short /\ longSide <= best.long)

\* a replacement test that looks at the shorter leftover only
BetterShortOnly(shortSide, longSide, best) == shortSide < best.short

\* the replacement test of insert's scan
Better(shortSide, longSide, best) ==
  shortSide < best.short \/ (shortSide = best.short /\ longSide < best.long)

\* one orientation (pw, ph) of the piece against one rectangle
TryOrientation(rect, pw, ph, kerf, isRot, best) ==
  IF _fits(pw + kerf, ph + kerf, rect)
  THEN LET leftoverHoriz == Abs(rect.width - (pw + kerf))
           leftoverVert == Abs(rect.height - (ph + kerf))
           shortSide == Min2(leftoverHoriz, leftoverVert)
           longSide == Max2(leftoverHoriz, leftoverVert)
       IN IF Better(shortSide, longSide, best)
          THEN [node |-> [x |-> rect.x, y |-> rect.y, width |-> pw, height |-> ph],
                short |-> shortSide, long |-> longSide, rotated |-> isRot]
          ELSE best
  ELSE best

RECURSIVE InsertScan(_, _, _, _, _, _, _)
InsertScan(freeRects, kerf, width, height, allowRotate, k, best) ==
  IF k > Len(freeRects) THEN best
  ELSE LET b1 == TryOrientation(freeRects[k], width, height, kerf, FALSE, best)
           b2 == IF allowRotate
                 THEN TryOrientation(freeRects[k], height, width, kerf, TRUE, b1)
                 ELSE b1
       IN CHOOSE r \in { InsertScan(freeRects, kerf, width, height, allowRotate, k + 1, b) :
                          b \in {b2} } : TRUE

\* insert: the node (Null when nothing fits), its flag and the new free list
insert(freeRects, kerf, width, height, allowRotate) ==
  CHOOSE r \in
    { IF best.node = Null
      THEN [node |-> Null, rotated |-> FALSE, freeRects |-> freeRects]
      ELSE [node |-> best.node, rotated |-> best.rotated,
            freeRects |-> _place(freeRects, kerf, best.node)] :
        best \in {InsertScan(freeRects, kerf, width, height, allowRotate, 1,
                             [node |-> Null, short |-> Infinity, long |-> Infinity,
                              rotated |-> FALSE])} } : TRUE

NewBin == <<[x |-> 0, y |-> 0, width |-> sheetWidth, height |-> sheetHeight]>>

\* ------------------------------------------------------------ piece records
\* parseFraction on the dimension texts of the cut lists that are modelled
parseFraction(str) ==
  CASE str = "0" -> 0
    [] str = "10" -> 10000000
    [] str = "24" -> 24000000
    [] str = "20" -> 20000000
    [] str = "24 1/64" -> 24015625
    [] str = "27 3/4" -> 27750000
    [] str = "30" -> 30000000
    [] str = "40" -> 40000000
    [] str = "47.9" -> 47900000
    [] str = "47.98" -> 47980000
    [] str = "47.995" -> 47995000
    [] str = "48" -> 48000000
    [] str = "50" -> 50000000
    [] str = "60" -> 60000000
    [] str = "85" -> 85000000
    [] str = "90" -> 90000000
    [] str = "96" -> 96000000
    [] str = "100" -> 100000000
    [] str = "120" -> 120000000

\* one parsed cut-list line; `line` is its position in the list
Piece(line, ow, oh, qty, edges) ==
  [line |-> line, originalWidth |-> ow, originalHeight |-> oh,
   width |-> parseFraction(ow), height |-> parseFraction(oh),
   qty |-> qty, edges |-> edges]

\* width * height of a product whose sides are whole 64ths of an inch (the
\* finest fraction of the modelled cut lists), counted in squares of 1/64 inch
AreaUnit == parseFraction("24 1/64") - parseFraction("24")

Area(w, h) == (w \div AreaUnit) * (h \div AreaUnit)

efficientDims == {47875000, 48000000, 96000000}
EfficientTol == 10000

\* a test of efficiency that looks at the width only
isEfficientWidth(piece) ==
  \E dim \in efficientDims : Abs(piece.width - dim) < EfficientTol

isEfficient(piece) ==
  \E dim \in efficientDims :
     Abs(piece.width - dim) < EfficientTol \/ Abs(piece.height - dim) < EfficientTol

\* ------------------------------------------------------------ processInput
\* the text `${originalWidth}" x ${originalHeight}" (${qty} PCS)`
Label(p) == <<p.originalWidth, p.originalHeight, p.qty>>

IsTooBig(p) ==
  /\ p.width > sheetWidth /\ p.height > sheetHeight
  /\ p.width > sheetHeight /\ p.height > sheetWidth

RECURSIVE MapLabel(_)
MapLabel(ps) == IF ps = <<>> THEN <<>> ELSE <<Label(Head(ps))>> \o MapLabel(Tail(ps))

TooBigOf(ps) == LET Keep(p) == IsTooBig(p) IN MapLabel(SelectSeq(ps, Keep))

Range(s) == {s[k] : k \in DOMAIN s}

ValidPiecesOf(ps) ==
  LET big == Range(TooBigOf(ps))
      Keep(p) == Label(p) \notin big
  IN SelectSeq(ps, Keep)

\* ------------------------------------------------------------ sorting
\* (a, b) => max(b.w, b.h) - max(a.w, a.h) || b.w * b.h - a.w * a.h, negative.
\* The areas are compared only when the larger sides are equal, and then
\* their difference has the sign of the difference of the smaller sides
\* (and is 0 when the larger side is 0); this keeps the numbers in range.
GeneralBefore(a, b) ==
  LET ma == Max2(a.width, a.height)
      mb == Max2(b.width, b.height)
  IN IF mb - ma # 0 THEN mb - ma < 0
     ELSE ma # 0 /\ Min2(b.width, b.height) - Min2(a.width, a.height) < 0

\* (a, b) => b.height - a.height, negative
StripBefore(a, b) == b.height - a.height < 0

\* part_002, tryPackSheet: the size a strategy sorts by
StrategySize(strategy, p) ==
  IF strategy = "height" THEN p.height
  ELSE IF strategy = "width" THEN p.width
  ELSE Area(p.width, p.height)

\* (a, b) => bSize - aSize, negative
StrategyBefore(strategy, a, b) == StrategySize(strategy, b) - StrategySize(strategy, a) < 0

Before(cmp, a, b) ==
  IF cmp = "general" THEN GeneralBefore(a, b)
  ELSE IF cmp = "strip" THEN StripBefore(a, b)
  ELSE StrategyBefore(cmp, a, b)

\* Array.prototype.sort is stable: an element follows the elements the
\* comparator orders before it and the earlier elements it ties with
Sorted(s, cmp) ==
  LET n == Len(s)
      Rank(k) == Cardinality({m \in 1..n :
                    \/ Before(cmp, s[m], s[k])
                    \/ (m < k /\ ~Before(cmp, s[k], s[m]))}) + 1
  IN CHOOSE out \in { [r \in 1..n |-> s[CHOOSE k \in 1..n : rank[k] = r]] :
                        rank \in {[k \in 1..n |-> Rank(k)] \o <<>>} } : TRUE

StableSort(s, cmp) == CHOOSE out \in { Sorted(v, cmp) : v \in {s} } : TRUE

Copies(p, n) == [k \in 1..n |-> p]

RECURSIVE Explode(_)
Explode(ps) ==
  IF ps = <<>> THEN <<>> ELSE Copies(Head(ps), Head(ps).qty) \o Explode(Tail(ps))

\* consuming an item without moving it to the front
SwapNone(s, a, b) == s

Swap(s, a, b) == [s EXCEPT ![a] = s[b], ![b] = s[a]]

\* ------------------------------------------------------------ aggregation
\* a tally that leaves the count of a key it has already seen
TallyOnce(map, key, fresh) ==
  IF \E m \in DOMAIN map : map[m].key = key
  THEN map
  ELSE Append(map, [key |-> key, piece |-> fresh.piece, rotated |-> fresh.rotated,
                    count |-> 1])

\* Map.get(key) || fresh, count += 1, Map.set(key): a Map keeps insertion order
Tally(map, key, fresh) ==
  IF \E m \in DOMAIN map : map[m].key = key
  THEN [m \in DOMAIN map |->
          IF map[m].key = key THEN [map[m] EXCEPT !.count = @ + 1] ELSE map[m]]
  ELSE Append(map, [key |-> key, piece |-> fresh.piece, rotated |-> fresh.rotated,
                    count |-> 1])

RECURSIVE SumCuts(_)
SumCuts(recs) ==
  IF recs = <<>> THEN 0
  ELSE (IF isEfficient(Head(recs).piece) THEN Head(recs).count ELSE Head(recs).count * 2)
       + SumCuts(Tail(recs))

RECURSIVE SumEdges(_)
SumEdges(recs) ==
  IF recs = <<>> THEN 0
  ELSE Head(recs).piece.edges * Head(recs).count + SumEdges(Tail(recs))

RECURSIVE StripKey(_)
StripKey(recs) ==
  IF recs = <<>> THEN <<>>
  ELSE <<[piece |-> Head(recs).piece, rotated |-> Head(recs).rotated,
          count |-> Head(recs).count]>> \o StripKey(Tail(recs))

\* { pieces: Array.from(map.values()), cuts, edges }
SheetOf(map) ==
  CHOOSE sheet \in { [pieces |-> StripKey(m), cuts |-> SumCuts(m), edges |-> SumEdges(m)] :
                       m \in {map} } : TRUE

\* the general pass keys by `${originalWidth}x${originalHeight}x${rotated ? 'R' : 'N'}`
RECURSIVE pieceMap(_, _, _)
pieceMap(placed, k, map) ==
  IF k > Len(placed) THEN map
  ELSE CHOOSE r \in { pieceMap(placed, k + 1, m) :
         m \in {Tally(map, <<placed[k].piece.originalWidth, placed[k].piece.originalHeight,
                             placed[k].rotated>>,
                      [piece |-> placed[k].piece, rotated |-> placed[k].rotated])} } : TRUE

\* the strip pass keys by `${originalWidth}x${originalHeight}`, never rotated
RECURSIVE sheetPiecesMap(_, _, _)
sheetPiecesMap(placed, k, map) ==
  IF k > Len(placed) THEN map
  ELSE CHOOSE r \in { sheetPiecesMap(placed, k + 1, m) :
         m \in {Tally(map, <<placed[k].piece.originalWidth, placed[k].piece.originalHeight>>,
                      [piece |-> placed[k].piece, rotated |-> FALSE])} } : TRUE

\* the rectangles handed to the renderer
VisOf(placed) ==
  [k \in 1..Len(placed) |->
     [x |-> placed[k].x, y |-> placed[k].y,
      width |-> placed[k].width, height |-> placed[k].height,
      label |-> <<placed[k].piece.originalWidth, placed[k].piece.originalHeight>>,
      colorKey |-> <<placed[k].piece.originalWidth, placed[k].piece.originalHeight>>]]

\* ------------------------------------------------------------ strip mode
Eps == 1
ThresholdNum == 7
ThresholdDen == 10

\* Math.round(n / d) for d > 0: halves go up
RoundHalfUp(n, d) == (2 * n + d) \div (2 * d)

\* Number.prototype.toFixed(4) read back by parseFloat: the nearest multiple
\* of 1e-4, the larger one on a tie
ToFixed4(v) == ((v + 50) \div 100) * 100

WidthKey(p) ==
  ToFixed4(RoundHalfUp(p.width, stripWidthTolerance) * stripWidthTolerance)

\* counts.set(key, (counts.get(key) || 0) + n): a Map keeps insertion order
Bump(counts, key, n) ==
  IF \E m \in DOMAIN counts : counts[m].key = key
  THEN [m \in DOMAIN counts |->
          IF counts[m].key = key THEN [counts[m] EXCEPT !.count = @ + n] ELSE counts[m]]
  ELSE Append(counts, [key |-> key, count |-> n])

RECURSIVE CountsOf(_, _)
CountsOf(ps, counts) ==
  IF ps = <<>> THEN counts
  ELSE CHOOSE r \in { CountsOf(Tail(ps), c) :
                        c \in {Bump(counts, WidthKey(Head(ps)), Head(ps).qty)} } : TRUE

RECURSIVE TotalQty(_)
TotalQty(ps) == IF ps = <<>> THEN 0 ELSE Head(ps).qty + TotalQty(Tail(ps))

\* for (const [k, c] of counts) if (c > bestCount) ...; bestKey is <<>> for null
RECURSIVE BestOf(_, _, _)
BestOf(counts, bestKey, bestCount) ==
  IF counts = <<>> THEN [bestKey |-> bestKey, bestCount |-> bestCount]
  ELSE IF Head(counts).count > bestCount
       THEN BestOf(Tail(counts), <<Head(counts).key>>, Head(counts).count)
       ELSE BestOf(Tail(counts), bestKey, bestCount)

\* commonWidth is <<>> for null; ratio is the fraction num / den
detectCommonWidth(ps) ==
  LET totalQty == TotalQty(ps)
      best == BestOf(CountsOf(ps, <<>>), <<>>, 0)
  IN [commonWidth |-> best.bestKey,
      ratio |-> IF totalQty = 0 THEN [num |-> 0, den |-> 1]
                ELSE [num |-> best.bestCount, den |-> totalQty]]

\* a threshold test that also turns down a share of exactly 0.7
AtOrBelowThreshold(ratio) == ratio.num * ThresholdDen <= ThresholdNum * ratio.den

\* ratio < 0.7
BelowThreshold(ratio) == ratio.num * ThresholdDen < ThresholdNum * ratio.den

isStrip(p, commonWidth) == Abs(p.width - commonWidth) <= stripWidthTolerance + Eps

RECURSIVE StripItemsOf(_, _)
StripItemsOf(ps, commonWidth) ==
  IF ps = <<>> THEN <<>>
  ELSE (IF isStrip(Head(ps), commonWidth) THEN Copies(Head(ps), Head(ps).qty) ELSE <<>>)
       \o StripItemsOf(Tail(ps), commonWidth)

OtherItemsOf(ps, commonWidth) ==
  LET Keep(p) == ~isStrip(p, commonWidth) IN SelectSeq(ps, Keep)

RECURSIVE ClampColumns(_, _)
ClampColumns(c, commonWidth) ==
  IF c * commonWidth > sheetWidth + Eps /\ c > 1
  THEN ClampColumns(c - 1, commonWidth)
  ELSE c

ColumnsPerSheet(commonWidth, kerf) ==
  ClampColumns(Max2(1, (sheetWidth + kerf) \div (commonWidth + kerf)), commonWidth)

\* whether packSheetsStripMode returns null before packing anything
StripDeclines(ps) ==
  \E d \in {detectCommonWidth(ps)} :
     IF d.commonWidth = <<>> THEN TRUE
     ELSE IF d.commonWidth[1] = 0 THEN TRUE
     ELSE IF ~stripModeAuto THEN TRUE
     ELSE IF StripItemsOf(ps, d.commonWidth[1]) = <<>> THEN TRUE
     ELSE BelowThreshold(d.ratio)

\* first column that admits a piece of this height, 0 when none does
RECURSIVE FirstColumn(_, _, _, _)
FirstColumn(columns, c, h, kerf) ==
  IF c > Len(columns) THEN 0
  ELSE IF columns[c].used + h + (IF columns[c].parts # <<>> THEN kerf ELSE 0)
            <= sheetHeight + Eps
       THEN c
       ELSE FirstColumn(columns, c + 1, h, kerf)

\* the body of the for-j loop of one strip sheet; i and j count from 0 as in
\* the code, st.stop is the break on i >= stripItems.length
StripStep(st, j, kerf, commonWidth) ==
  IF st.stop THEN st
  ELSE LET item == st.items[j + 1]
           c == FirstColumn(st.columns, 1, item.height, kerf)
       IN IF c = 0 THEN st
          ELSE LET y == st.columns[c].used
                          + (IF st.columns[c].parts # <<>> THEN kerf ELSE 0)
                   part == [item |-> item, x |-> 0, y |-> y,
                            width |-> commonWidth, height |-> item.height]
               IN [items |-> Swap(st.items, j + 1, st.i + 1),
                   i |-> st.i + 1,
                   columns |-> [st.columns EXCEPT ![c] =
                                  [used |-> y + item.height,
                                   parts |-> Append(@.parts, part)]],
                   stop |-> st.i + 1 >= Len(st.items)]

\* the iterations lo..hi of the loop, in order (halved, the first half
\* evaluated before the second, to bound the nesting)
RECURSIVE StripFill(_, _, _, _, _)
StripFill(st, lo, hi, kerf, commonWidth) ==
  IF lo > hi THEN st
  ELSE IF lo = hi THEN StripStep(st, lo, kerf, commonWidth)
  ELSE CHOOSE r \in UNION {
              { StripFill(half, mid + 1, hi, kerf, commonWidth) :
                  half \in {StripFill(st, lo, mid, kerf, commonWidth)} } :
                mid \in {(lo + hi) \div 2} } : TRUE

\* every column drawn at the left edge of the sheet
xOffsetNone(colIdx, commonWidth) == 0

xOffset(colIdx, commonWidth) == colIdx * commonWidth

\* the parts of all columns, left to right, at their drawn positions
RECURSIVE StripPlaced(_, _, _)
StripPlaced(columns, c, commonWidth) ==
  IF c > Len(columns) THEN <<>>
  ELSE [k \in 1..Len(columns[c].parts) |->
          [x |-> xOffset(c - 1, commonWidth), y |-> columns[c].parts[k].y,
           width |-> columns[c].parts[k].width, height |-> columns[c].parts[k].height,
           piece |-> columns[c].parts[k].item, rotated |-> FALSE]]
       \o StripPlaced(columns, c + 1, commonWidth)

\* ------------------------------------------------------------ general pass
RotTol == 100

\* the body of the for-j loop of one MaxRects sheet; idx and j count from 0
\* as in the code
GeneralStep(st, j, kerf, conservative) ==
  LET p == st.items[j + 1]
      key1 == <<p.originalWidth, p.originalHeight>>
      key2 == <<p.originalHeight, p.originalWidth>>
  IN IF /\ conservative
        /\ Cardinality(st.distinctDims) >= DistinctCap
        /\ key1 \notin st.distinctDims /\ key2 \notin st.distinctDims
     THEN st
     ELSE CHOOSE out \in
            { IF r.node = Null THEN st
              ELSE [items |-> Swap(st.items, j + 1, st.idx + 1),
                    idx |-> st.idx + 1,
                    freeRects |-> r.freeRects,
                    placed |-> Append(st.placed,
                       [x |-> r.node.x, y |-> r.node.y,
                        width |-> r.node.width, height |-> r.node.height,
                        piece |-> p,
                        rotated |-> ~(Abs(r.node.width - p.width) < RotTol
                                      /\ Abs(r.node.height - p.height) < RotTol)]),
                    distinctDims |-> st.distinctDims \cup {key1}] :
                r \in {insert(st.freeRects, kerf, p.width, p.height, TRUE)} } : TRUE

\* a pass over the pending items that gives up after the first one
GeneralFillFirst(st, lo, hi, kerf, conservative) ==
  IF lo > hi THEN st ELSE GeneralStep(st, lo, kerf, conservative)

\* the iterations lo..hi of the loop, in order (halved, the first half
\* evaluated before the second, to bound the nesting)
RECURSIVE GeneralFill(_, _, _, _, _)
GeneralFill(st, lo, hi, kerf, conservative) ==
  IF lo > hi THEN st
  ELSE IF lo = hi THEN GeneralStep(st, lo, kerf, conservative)
  ELSE CHOOSE r \in UNION {
              { GeneralFill(half, mid + 1, hi, kerf, conservative) :
                  half \in {GeneralFill(st, lo, mid, kerf, conservative)} } :
                mid \in {(lo + hi) \div 2} } : TRUE

\* ------------------------------------------------------------ state
VARIABLES
  variant,          \* "script" (src/script.js), "part_001" (with the strip pre-pass)
                    \* or "part_002" (the strategy packer)
  conservativeMode, \* the conservative toggle
  kerf,             \* config.kerf
  pieces,           \* parseInput's result
  tooBig,           \* processInput: labels of the oversized pieces
  validPieces,      \* processInput: what is handed to packSheetsGuillotine
  pc,               \* position of the run
  stripUsed,        \* packSheetsStripMode returned a result, not null
  commonWidth,      \* packSheetsStripMode
  columnsPerSheet,  \* packSheetsStripMode
  stripItems,       \* packSheetsStripMode
  i,                \* packSheetsStripMode: stripItems consumed so far
  otherItems,       \* packSheetsStripMode
  remaining,        \* items (script.js), remaining (part_001), remainingPieces (part_002)
  idx,              \* packSheetsGuillotine: items consumed so far
  sheets,           \* result
  visuals,          \* result
  warnings,         \* result
  stripSheets,      \* stripResult.sheets.length
  placements,       \* per sheet, its placed entries: placed (general), col.parts (strip)
  freeRects,        \* bin.freeRects of the bin last filled
  usedRects,        \* a MaxRectsBin under test
  lastInsert,       \* the last insert on that bin: arguments, free list before, result
  iterations        \* calculateSheets (part_002): passes of its while loop so far

vars == <<variant, conservativeMode, kerf, pieces, tooBig, validPieces, pc, stripUsed,
          commonWidth, columnsPerSheet, stripItems, i, otherItems, remaining, idx,
          sheets, visuals, warnings, stripSheets, placements, freeRects, usedRects,
          lastInsert, iterations>>

binVars == <<freeRects, usedRects, lastInsert>>
stripVars == <<commonWidth, columnsPerSheet, stripItems, i, otherItems>>
inputVars == <<variant, conservativeMode, kerf, pieces>>
resultVars == <<sheets, visuals, warnings, stripSheets, placements>>

NoInsert == [width |-> -1, height |-> -1, allowRotate |-> FALSE, before |-> <<>>,
             node |-> Null, rotated |-> FALSE]

StuckWarning == "Some pieces could not be placed"
AbortWarning == "Aborting: too many sheets generated"

\* ------------------------------------------------------------ cut lists
Templates ==
  { <<"48", "96", 0>>, <<"24", "48", 1>>, <<"24 1/64", "30", 0>>, <<"60", "40", 0>>,
    <<"50", "100", 0>>, <<"120", "100", 0>> }

Quantities == {0, 1, 3}

Lines == Templates \X Quantities

JobsOfLength(n) ==
  { [k \in 1..n |-> Piece(k, f[k][1][1], f[k][1][2], f[k][2], f[k][1][3])] :
      f \in [1..n -> Lines] }

SmallJobs == UNION { JobsOfLength(n) : n \in 0..MaxRecords }

\* one sheet per piece, past the sheet ceiling
BigJobs ==
  { <<Piece(1, "48", "96", BigQty, 0)>>,
    <<Piece(1, "48", "96", BigQty, 0), Piece(2, "24", "30", 1, 0)>> }

\* one sheet per piece, one sheet past the ceiling and nothing left over
CeilingJobs ==
  { <<Piece(1, "48", "96", SheetCeiling + 1, 0)>> }

\* exactly 70 % of the quantity in one width bucket
ThresholdJobs ==
  { <<Piece(1, "24", "48", 7, 1), Piece(2, "48", "96", 3, 0)>> }

\* zero-size pieces
ZeroJobs ==
  { <<Piece(1, "0", "10", 3, 0)>>,
    <<Piece(1, "0", "0", 1, 0), Piece(2, "24", "48", 1, 0)>>,
    <<Piece(1, "24", "48", 3, 1), Piece(2, "10", "0", 1, 0)>> }

\* more distinct dimension pairs than the conservative cap
DimsJobs ==
  { <<Piece(1, "10", "10", 1, 0), Piece(2, "10", "24", 1, 0), Piece(3, "10", "30", 1, 0),
      Piece(4, "10", "40", 1, 0), Piece(5, "24", "24", 1, 0), Piece(6, "24", "30", 1, 0),
      Piece(7, "30", "30", 1, 0), Piece(8, "24", "10", 1, 0)>> }

\* a dominant width next to several other records
MixedJobs ==
  { <<Piece(1, "24", "48", 7, 1), Piece(2, "10", "40", 1, 0), Piece(3, "10", "30", 1, 0),
      Piece(4, "10", "10", 1, 0)>> }

\* narrow pieces of one width: several strip columns on a sheet
ColumnJobs ==
  { <<Piece(1, "10", "40", 3, 0)>> }

\* two lines with the same dimension text and different edge banding
EdgeJobs ==
  { <<Piece(1, "24", "48", 1, 1), Piece(2, "24", "48", 1, 0)>> }

\* widths inside and outside the 0.01 band around an efficient dimension
EfficientJobs ==
  { <<Piece(1, "47.995", "10", 1, 0), Piece(2, "47.98", "10", 1, 0)>>,
    <<Piece(1, "10", "47.995", 1, 0), Piece(2, "10", "47.98", 1, 0)>> }

\* the request 47.9 x 10, ten times
WorkedJobs ==
  { <<Piece(1, "47.9", "10", 10, 0)>> }

\* two pieces that do not fit beside the first one, then one that does
OrderJobs ==
  { <<Piece(1, "48", "60", 1, 0), Piece(2, "40", "50", 1, 0), Piece(3, "40", "40", 1, 0),
      Piece(4, "30", "30", 1, 0)>> }

\* a strip pass of two sheets, then two pieces that take a sheet each
TwoPassJobs ==
  { <<Piece(1, "24", "48", 7, 1), Piece(2, "48", "96", 1, 0), Piece(3, "60", "40", 1, 0)>> }

PickedJobs ==
  ThresholdJobs \cup ZeroJobs \cup DimsJobs \cup MixedJobs \cup ColumnJobs
    \cup EdgeJobs \cup EfficientJobs \cup WorkedJobs \cup OrderJobs
    \cup TwoPassJobs

Jobs == SmallJobs \cup PickedJobs

\* ------------------------------------------------------------ orchestrator
Init ==
  /\ variant \in {"script", "part_001"}
  \* Cut lists built from the templates hold fewer dimension pairs than the
  \* conservative cap, which never acts on them: they run with the toggle at
  \* its default.
  /\ \/ /\ pieces \in SmallJobs
        /\ conservativeMode = TRUE
        /\ kerf \in KerfValues
     \/ /\ pieces \in PickedJobs
        /\ conservativeMode \in BOOLEAN
        /\ kerf \in KerfValues
     \/ /\ pieces \in BigJobs \cup CeilingJobs
        /\ conservativeMode = TRUE
        /\ kerf = 0
  /\ tooBig = <<>>
  /\ validPieces = <<>>
  /\ pc = "processInput"
  /\ stripUsed = FALSE
  /\ commonWidth = 0
  /\ columnsPerSheet = 0
  /\ stripItems = <<>>
  /\ i = 0
  /\ otherItems = <<>>
  /\ remaining = <<>>
  /\ idx = 0
  /\ sheets = <<>>
  /\ visuals = <<>>
  /\ warnings = <<>>
  /\ stripSheets = 0
  /\ placements = <<>>
  /\ freeRects = <<>>
  /\ usedRects = <<>>
  /\ lastInsert = NoInsert
  /\ iterations = 0

\* processInput up to the call of packSheetsGuillotine
ProcessInput ==
  /\ pc = "processInput"
  /\ tooBig' = TooBigOf(pieces)
  /\ validPieces' = ValidPiecesOf(pieces)
  /\ pc' = "packSheetsGuillotine"
  /\ UNCHANGED <<iterations, inputVars, stripUsed, stripVars, remaining, idx, resultVars, binVars>>

\* script.js: explode and sort
StartScript ==
  /\ pc = "packSheetsGuillotine"
  /\ variant = "script"
  /\ remaining' = StableSort(Explode(validPieces), "general")
  /\ idx' = 0
  /\ pc' = "general"
  /\ UNCHANGED <<iterations, inputVars, tooBig, validPieces, stripUsed, stripVars, resultVars,
                 binVars>>

\* part_001: packSheetsStripMode returns null; explode and sort
StartNoStrip ==
  /\ pc = "packSheetsGuillotine"
  /\ variant = "part_001"
  /\ StripDeclines(validPieces)
  /\ stripUsed' = FALSE
  /\ remaining' = StableSort(Explode(validPieces), "general")
  /\ idx' = 0
  /\ pc' = "general"
  /\ UNCHANGED <<iterations, inputVars, tooBig, validPieces, stripVars, resultVars, binVars>>

\* part_001: packSheetsStripMode up to its sheet loop
StartStrip ==
  /\ pc = "packSheetsGuillotine"
  /\ variant = "part_001"
  /\ ~StripDeclines(validPieces)
  /\ \E cw \in {detectCommonWidth(validPieces).commonWidth[1]} :
        /\ commonWidth' = cw
        /\ stripItems' = StableSort(StripItemsOf(validPieces, cw), "strip")
        /\ otherItems' = OtherItemsOf(validPieces, cw)
        /\ columnsPerSheet' = ColumnsPerSheet(cw, kerf)
  /\ stripUsed' = TRUE
  /\ i' = 0
  /\ pc' = "strip"
  /\ UNCHANGED <<iterations, inputVars, tooBig, validPieces, remaining, idx, resultVars, binVars>>

\* a strip loop without the break on an empty sheet
NeverStuck(placed) == FALSE

\* if (placedCount === 0) break
StripStuck(placed) == Len(placed) = 0

\* one iteration of packSheetsStripMode's while loop
StripSheet ==
  /\ pc = "strip"
  /\ i < Len(stripItems)
  /\ \E r \in {StripFill([items |-> stripItems, i |-> i,
                           columns |-> [c \in 1..columnsPerSheet |->
                                          [used |-> 0, parts |-> <<>>]],
                           stop |-> FALSE],
                          i, Len(stripItems) - 1, kerf, commonWidth)} :
     \E placed \in {StripPlaced(r.columns, 1, commonWidth)} :
        /\ stripItems' = r.items
        /\ i' = r.i
        /\ IF StripStuck(placed)
           THEN /\ pc' = "stripBreak"
                /\ UNCHANGED <<sheets, visuals, stripSheets, placements>>
           ELSE /\ pc' = "strip"
                /\ stripSheets' = stripSheets + 1
                /\ sheets' = Append(sheets, SheetOf(sheetPiecesMap(placed, 1, <<>>)))
                /\ visuals' = Append(visuals, VisOf(placed))
                /\ placements' = Append(placements, placed)
  /\ UNCHANGED <<iterations, inputVars, tooBig, validPieces, stripUsed, commonWidth,
                 columnsPerSheet,
                 otherItems, remaining, idx, warnings, binVars>>

StripLoopOver == IF pc = "strip" THEN i >= Len(stripItems) ELSE pc = "stripBreak"

\* packSheetsStripMode returns; the orchestrator sorts what remains
StripReturn ==
  /\ StripLoopOver
  /\ remaining' = StableSort(SubSeq(stripItems, i + 1, Len(stripItems)) \o otherItems,
                             "general")
  /\ idx' = 0
  /\ pc' = "general"
  /\ UNCHANGED <<iterations, inputVars, tooBig, validPieces, stripUsed, stripVars, resultVars,
                 binVars>>

\* a general loop without the test for an empty sheet
NoStuckTest(placed) == FALSE

\* if (placed.length === 0) { warn; break }
SheetStuck(placed) == Len(placed) = 0

\* if (sheets.length > 200) { warn; break }
TooManySheets(n) == n > SheetCeiling

\* one iteration of packSheetsGuillotine's while loop
GeneralSheet ==
  /\ pc = "general"
  /\ idx < Len(remaining)
  /\ \E r \in {GeneralFill([items |-> remaining, idx |-> idx, freeRects |-> NewBin,
                             placed |-> <<>>, distinctDims |-> {}],
                            idx, Len(remaining) - 1, kerf, conservativeMode)} :
        /\ remaining' = r.items
        /\ idx' = r.idx
        /\ freeRects' = r.freeRects
        /\ IF SheetStuck(r.placed)
           THEN /\ warnings' = Append(warnings, StuckWarning)
                /\ pc' = "done"
                /\ UNCHANGED <<sheets, visuals, placements>>
           ELSE /\ sheets' = Append(sheets, SheetOf(pieceMap(r.placed, 1, <<>>)))
                /\ visuals' = Append(visuals, VisOf(r.placed))
                /\ placements' = Append(placements, r.placed)
                /\ IF TooManySheets(Len(sheets'))
                   THEN /\ warnings' = Append(warnings, AbortWarning)
                        /\ pc' = "done"
                   ELSE /\ warnings' = warnings
                        /\ pc' = "general"
  /\ UNCHANGED <<iterations, inputVars, tooBig, validPieces, stripUsed, stripVars, stripSheets,
                 usedRects, lastInsert>>

\* the while condition fails: return { sheets, warnings, visuals }
Return ==
  /\ pc = "general"
  /\ idx >= Len(remaining)
  /\ pc' = "done"
  /\ UNCHANGED <<iterations, inputVars, tooBig, validPieces, stripUsed, stripVars, remaining, idx,
                 resultVars, binVars>>

Next ==
  \/ ProcessInput
  \/ StartScript
  \/ StartNoStrip
  \/ StartStrip
  \/ StripSheet
  \/ StripReturn
  \/ GeneralSheet
  \/ Return

Spec == Init /\ [][Next]_vars

\* the run is one synchronous call: once started, it keeps stepping until it returns
FairSpec == Spec /\ WF_vars(Next)

\* ------------------------------------------------------------ a bin alone
\* the sides of the pieces offered to the bin under test
BinWidths == {24000000, 30000000, 48000000}
BinHeights == {24000000, 48000000, 96000000}

BinInit ==
  /\ variant = "script"
  /\ conservativeMode = TRUE
  /\ kerf \in KerfValues
  /\ pieces = <<>>
  /\ tooBig = <<>>
  /\ validPieces = <<>>
  /\ pc = "bin"
  /\ stripUsed = FALSE
  /\ commonWidth = 0
  /\ columnsPerSheet = 0
  /\ stripItems = <<>>
  /\ i = 0
  /\ otherItems = <<>>
  /\ remaining = <<>>
  /\ idx = 0
  /\ sheets = <<>>
  /\ visuals = <<>>
  /\ warnings = <<>>
  /\ stripSheets = 0
  /\ placements = <<>>
  /\ freeRects = NewBin
  /\ usedRects = <<>>
  /\ lastInsert = NoInsert
  /\ iterations = 0

\* bin.insert(width, height, allowRotate) on the bin under test
BinInsert ==
  /\ pc = "bin"
  /\ Len(usedRects) < MaxInserts
  /\ \E width \in BinWidths, height \in BinHeights, allowRotate \in BOOLEAN :
       \E r \in {insert(freeRects, kerf, width, height, allowRotate)} :
          /\ freeRects' = r.freeRects
          /\ usedRects' = IF r.node = Null THEN usedRects ELSE Append(usedRects, r.node)
          /\ lastInsert' = [width |-> width, height |-> height,
                            allowRotate |-> allowRotate, before |-> freeRects,
                            node |-> r.node, rotated |-> r.rotated]
  /\ UNCHANGED <<iterations, inputVars, tooBig, validPieces, pc, stripUsed, stripVars,
                 remaining, idx,
                 resultVars>>

BinNext == BinInsert

SpecBin == BinInit /\ [][BinNext]_vars

\* ------------------------------------------------------------ strip decision alone
\* three-line cut lists with every split of the quantities
DetectTexts == << {"24", "0"}, {"24 1/64", "48"}, {"24", "48"} >>

DetectJobs ==
  { [k \in 1..3 |-> Piece(k, w[k], "48", q[k], 0)] :
      w \in [1..3 -> {"0", "24", "24 1/64", "48"}] \cap
            {f \in [1..3 -> {"0", "24", "24 1/64", "48"}] :
               \A k \in 1..3 : f[k] \in DetectTexts[k]},
      q \in [1..3 -> 0..MaxDetectQty] }

StripInit ==
  /\ variant = "part_001"
  /\ conservativeMode = TRUE
  /\ kerf = 0
  /\ pieces \in DetectJobs
  /\ tooBig = <<>>
  /\ validPieces = pieces
  /\ pc = "packSheetsGuillotine"
  /\ stripUsed = FALSE
  /\ commonWidth = 0
  /\ columnsPerSheet = 0
  /\ stripItems = <<>>
  /\ i = 0
  /\ otherItems = <<>>
  /\ remaining = <<>>
  /\ idx = 0
  /\ sheets = <<>>
  /\ visuals = <<>>
  /\ warnings = <<>>
  /\ stripSheets = 0
  /\ placements = <<>>
  /\ freeRects = <<>>
  /\ usedRects = <<>>
  /\ lastInsert = NoInsert
  /\ iterations = 0

StripNext ==
  \/ StartNoStrip
  \/ StartStrip

SpecStrip == StripInit /\ [][StripNext]_vars

\* ------------------------------------------------------------ strategy packer
\* src/unnamed/part_002: calculateSheets and tryPackSheet. Its config.kerf is
\* 0.125 and it filters nothing before packing.
StrategyKerf == 125000
Strategies == <<"height", "width", "area">>

SheetArea == Area(sheetWidth, sheetHeight)

NewSheet ==
  [pieces |-> <<>>, usedArea |-> 0, cuts |-> 0, edges |-> 0,
   remainingWidth |-> sheetWidth, remainingHeight |-> sheetHeight, currentY |-> 0]

\* pw and ph of one orientation of a record
Footprint(piece, rotation) ==
  [pw |-> (IF rotation THEN piece.height ELSE piece.width) + kerf,
   ph |-> (IF rotation THEN piece.width ELSE piece.height) + kerf]

\* maxFit, 0 when the orientation does not fit the open row
MaxFit(st, piece, rotation) ==
  LET fp == Footprint(piece, rotation)
  IN IF fp.pw <= st.remainingWidth /\ fp.ph <= st.remainingHeight
     THEN Min2((st.remainingWidth \div fp.pw) * (st.remainingHeight \div fp.ph), piece.qty)
     ELSE 0

\* the sheet after pushing one orientation of a record
Put(st, piece, rotation) ==
  LET fp == Footprint(piece, rotation)
      placed == Min2(MaxFit(st, piece, rotation), st.remainingWidth \div fp.pw)
      width == st.remainingWidth - fp.pw * placed
      wraps == width <= 0
  IN [pieces |-> Append(st.pieces,
                        [piece |-> piece, count |-> placed, rotated |-> rotation,
                         width |-> fp.pw, height |-> fp.ph]),
      usedArea |-> st.usedArea + Area(piece.width, piece.height) * placed,
      cuts |-> st.cuts + (IF isEfficient(piece) THEN placed ELSE placed * 2),
      edges |-> st.edges + piece.edges * placed,
      remainingWidth |-> IF wraps THEN sheetWidth ELSE width,
      currentY |-> IF wraps THEN st.currentY + fp.ph ELSE st.currentY,
      remainingHeight |-> IF wraps THEN sheetHeight - (st.currentY + fp.ph)
                          ELSE st.remainingHeight]

\* the body of tryPackSheet's loop over the sorted records: the first
\* orientation of [false, true] with maxFit > 0 is pushed
PackStep(st, piece) ==
  IF piece.qty <= 0 THEN st
  ELSE IF MaxFit(st, piece, FALSE) > 0 THEN Put(st, piece, FALSE)
  ELSE IF MaxFit(st, piece, TRUE) > 0 THEN Put(st, piece, TRUE)
  ELSE st

RECURSIVE PackAll(_, _, _)
PackAll(sorted, k, st) ==
  IF k > Len(sorted) THEN st
  ELSE CHOOSE r \in { PackAll(sorted, k + 1, next) :
                        next \in {PackStep(st, sorted[k])} } : TRUE

\* sheet.utilization is usedArea over the area of the sheet
tryPackSheet(ps, strategy) ==
  CHOOSE sheet \in
    { [pieces |-> st.pieces, usedArea |-> st.usedArea,
       utilization |-> [num |-> st.usedArea, den |-> SheetArea],
       cuts |-> st.cuts, edges |-> st.edges] :
        st \in {PackAll(StableSort(ps, strategy), 1, NewSheet)} } : TRUE

\* bestSheet is <<>> for null
NoSheet == [sheet |-> <<>>, bestUtilization |-> [num |-> 0, den |-> SheetArea]]

\* utilization > bestUtilization, both over the area of the sheet
MoreUtilized(utilization, bestUtilization) == utilization.num > bestUtilization.num

RECURSIVE BestSheet(_, _, _)
BestSheet(ps, s, best) ==
  IF s > Len(Strategies) THEN best
  ELSE CHOOSE r \in
         { BestSheet(ps, s + 1,
                     IF MoreUtilized(sheet.utilization, best.bestUtilization)
                     THEN [sheet |-> <<sheet>>, bestUtilization |-> sheet.utilization]
                     ELSE best) :
             sheet \in {tryPackSheet(ps, Strategies[s])} } : TRUE

\* remainingPieces.find(p => same originalWidth and originalHeight), 0 when
\* there is none
FindOriginal(rem, piece) ==
  IF \E k \in DOMAIN rem : /\ rem[k].originalWidth = piece.originalWidth
                           /\ rem[k].originalHeight = piece.originalHeight
  THEN CHOOSE k \in DOMAIN rem :
         /\ rem[k].originalWidth = piece.originalWidth
         /\ rem[k].originalHeight = piece.originalHeight
         /\ \A m \in 1..(k - 1) : ~(/\ rem[m].originalWidth = piece.originalWidth
                                    /\ rem[m].originalHeight = piece.originalHeight)
  ELSE 0

\* bestSheet.pieces.forEach(({ piece, count }) => ... original.qty -= count)
RECURSIVE UpdateQty(_, _, _)
UpdateQty(rem, entries, k) ==
  IF k > Len(entries) THEN rem
  ELSE CHOOSE r \in
         { UpdateQty(IF o = 0 THEN rem
                     ELSE [rem EXCEPT ![o].qty = @ - entries[k].count],
                     entries, k + 1) :
             o \in {FindOriginal(rem, entries[k].piece)} } : TRUE

HasQty(p) == p.qty > 0

\* cut lists for the strategy packer
StrategyTemplates ==
  { <<"48", "96", 0>>, <<"24", "48", 1>>, <<"24 1/64", "30", 0>>, <<"60", "40", 0>>,
    <<"10", "10", 0>>, <<"0", "10", 0>> }

StrategyJobs ==
  UNION { { [k \in 1..n |-> Piece(k, f[k][1][1], f[k][1][2], f[k][2], f[k][1][3])] :
              f \in [1..n -> StrategyTemplates \X Quantities] } : n \in 0..MaxRecords }
  \cup { <<Piece(1, "20", "90", 1, 0), Piece(2, "27 3/4", "10", 1, 0),
           Piece(3, "85", "10", 4, 0)>> }

StrategyInit ==
  /\ variant = "part_002"
  /\ conservativeMode = FALSE
  /\ kerf = StrategyKerf
  /\ pieces \in StrategyJobs
  /\ tooBig = <<>>
  /\ validPieces = <<>>
  /\ pc = "calculateSheets"
  /\ stripUsed = FALSE
  /\ commonWidth = 0
  /\ columnsPerSheet = 0
  /\ stripItems = <<>>
  /\ i = 0
  /\ otherItems = <<>>
  /\ remaining = pieces
  /\ idx = 0
  /\ sheets = <<>>
  /\ visuals = <<>>
  /\ warnings = <<>>
  /\ stripSheets = 0
  /\ placements = <<>>
  /\ freeRects = <<>>
  /\ usedRects = <<>>
  /\ lastInsert = NoInsert
  /\ iterations = 0

\* one pass of calculateSheets' while loop
StrategySheet ==
  /\ pc = "calculateSheets"
  /\ \E k \in DOMAIN remaining : remaining[k].qty > 0
  /\ iterations < MaxIterations
  /\ iterations' = iterations + 1
  /\ \E best \in {BestSheet(remaining, 1, NoSheet)} :
        IF best.sheet = <<>>
        THEN UNCHANGED <<sheets, remaining>>
        ELSE /\ sheets' = Append(sheets, best.sheet[1])
             /\ remaining' = SelectSeq(UpdateQty(remaining, best.sheet[1].pieces, 1), HasQty)
  /\ UNCHANGED <<inputVars, tooBig, validPieces, pc, stripUsed, stripVars, idx, visuals,
                 warnings, stripSheets, placements, binVars>>

\* the while condition fails: return sheets
StrategyReturn ==
  /\ pc = "calculateSheets"
  /\ ~\E k \in DOMAIN remaining : remaining[k].qty > 0
  /\ pc' = "done"
  /\ UNCHANGED <<iterations, inputVars, tooBig, validPieces, stripUsed, stripVars, remaining,
                 idx, resultVars, binVars>>

StrategyNext ==
  \/ StrategySheet
  \/ StrategyReturn

StrategySpec == StrategyInit /\ [][StrategyNext]_vars

\* ------------------------------------------------------------ properties
\* the two rectangles share a region of positive area
PositiveOverlap(a, b) ==
  /\ Max2(a.x, b.x) < Min2(a.x + a.width, b.x + b.width)
  /\ Max2(a.y, b.y) < Min2(a.y + a.height, b.y + b.height)

\* the placements, over all sheets, of the record read from cut-list line n
PlacedOf(n) ==
  UNION { { <<s, k>> : k \in { k \in DOMAIN placements[s] :
                                 placements[s][k].piece.line = n } } :
          s \in DOMAIN placements }

\* the items of line n still pending at the end of the run
PendingOf(n) == { k \in (idx + 1)..Len(remaining) : remaining[k].line = n }

FitsSheet(w, h) == w <= sheetWidth /\ h <= sheetHeight

\* C1: on every returned sheet, no two distinct placement rectangles share a
\* region of positive area (strip-pass and general-pass sheets, every kerf,
\* either conservative setting).
C1_NoOverlap ==
  \A s \in DOMAIN visuals :
    \A a, b \in DOMAIN visuals[s] :
      a < b => ~PositiveOverlap(visuals[s][a], visuals[s][b])

C1_Witness ==
  /\ pc = "done"
  /\ stripSheets >= 1
  /\ \E s \in 1..stripSheets :
       \E a, b \in DOMAIN visuals[s] : visuals[s][a].x # visuals[s][b].x
  /\ \E s \in (stripSheets + 1)..Len(visuals) : Len(visuals[s]) >= 2

\* C2: every placement rectangle lies inside the sheet.
C2_Bounded ==
  \A s \in DOMAIN visuals :
    \A k \in DOMAIN visuals[s] :
      LET v == visuals[s][k]
      IN /\ 0 <= v.x /\ 0 <= v.y
         /\ v.x + v.width <= sheetWidth
         /\ v.y + v.height <= sheetHeight

\* C3: when the run has ended, the placements of every record plus its
\* instances still unplaced number its original quantity.
C3_Conservation ==
  pc = "done" =>
    \A k \in DOMAIN validPieces :
      Cardinality(PlacedOf(validPieces[k].line))
        + Cardinality(PendingOf(validPieces[k].line)) = validPieces[k].qty

\* C4: every iteration of the strip sheet loop and of the general sheet loop
\* consumes at least one pending item or leaves the loop, and the run reaches
\* its return statement.
C4_Termination ==
  /\ [][/\ (pc = "strip" /\ pc' = "strip") => i' > i
        /\ (pc = "general" /\ pc' = "general") => idx' > idx]_vars
  /\ <>(pc = "done")

C4_Witness ==
  /\ pc = "done"
  /\ stripSheets >= 2
  /\ Len(sheets) > stripSheets
  /\ warnings # <<>>

\* C5: a piece that fits the sheet in neither orientation is on the oversized
\* list, is not handed to the packer and is on no sheet; a piece that fits in
\* some orientation is handed to the packer.
C5_OversizedFiltered ==
  pc # "processInput" =>
    \A k \in DOMAIN pieces :
      LET p == pieces[k]
      IN IF ~FitsSheet(p.width, p.height) /\ ~FitsSheet(p.height, p.width)
         THEN /\ Label(p) \in Range(tooBig)
              /\ p \notin Range(validPieces)
              /\ PlacedOf(p.line) = {}
         ELSE p \in Range(validPieces)

\* C6: a run that ends with a requested instance on no sheet returns a warning.
C6_NoSilentLoss ==
  (/\ pc = "done"
   /\ \E k \in DOMAIN validPieces :
        Cardinality(PlacedOf(validPieces[k].line)) < validPieces[k].qty)
    => warnings # <<>>

\* C7: no result has more than 201 sheets, and every result with more than
\* 200 sheets carries the abort warning.
C7_Ceiling ==
  pc = "done" =>
    /\ Len(sheets) <= SheetCeiling + 1
    /\ Len(sheets) > SheetCeiling => AbortWarning \in Range(warnings)

\* C8: every placement reports the request's (width, height) when flagged
\* unrotated and (height, width) when flagged rotated.
C8_RotationLegal ==
  \A s \in DOMAIN placements :
    \A k \in DOMAIN placements[s] :
      LET pl == placements[s][k]
      IN IF pl.rotated
         THEN pl.width = pl.piece.height /\ pl.height = pl.piece.width
         ELSE pl.width = pl.piece.width /\ pl.height = pl.piece.height

\* the (rectangle, orientation) pairs of the last insert that fit with
\* kerf-inflated dimensions; orientation TRUE is the rotated one
Oriented(o) ==
  IF o THEN [w |-> lastInsert.height, h |-> lastInsert.width]
  ELSE [w |-> lastInsert.width, h |-> lastInsert.height]

Fitting ==
  { c \in (DOMAIN lastInsert.before) \X (IF lastInsert.allowRotate THEN BOOLEAN ELSE {FALSE}) :
      /\ Oriented(c[2]).w + kerf <= lastInsert.before[c[1]].width
      /\ Oriented(c[2]).h + kerf <= lastInsert.before[c[1]].height }

LeftoverShort(c) ==
  Min2(lastInsert.before[c[1]].width - (Oriented(c[2]).w + kerf),
       lastInsert.before[c[1]].height - (Oriented(c[2]).h + kerf))

LeftoverLong(c) ==
  Max2(lastInsert.before[c[1]].width - (Oriented(c[2]).w + kerf),
       lastInsert.before[c[1]].height - (Oriented(c[2]).h + kerf))

\* C9: insert returns null iff no (rectangle, orientation) pair fits, and
\* otherwise places the piece at the corner of a fitting pair whose
\* (leftoverShort, leftoverLong) is lexicographically minimal.
C9_BestShortSideFit ==
  lastInsert # NoInsert =>
    /\ lastInsert.node = Null <=> Fitting = {}
    /\ lastInsert.node # Null =>
         \E c \in Fitting :
           /\ lastInsert.node.x = lastInsert.before[c[1]].x
           /\ lastInsert.node.y = lastInsert.before[c[1]].y
           /\ lastInsert.node.width = Oriented(c[2]).w
           /\ lastInsert.node.height = Oriented(c[2]).h
           /\ \A d \in Fitting :
                \/ LeftoverShort(c) < LeftoverShort(d)
                \/ /\ LeftoverShort(c) = LeftoverShort(d)
                   /\ LeftoverLong(c) <= LeftoverLong(d)

\* an insert over several free rectangles where the longer leftover decides
C9_Witness ==
  /\ lastInsert # NoInsert
  /\ lastInsert.node # Null
  /\ Len(lastInsert.before) >= 2
  /\ \E c, d \in Fitting :
       LeftoverShort(c) = LeftoverShort(d) /\ LeftoverLong(c) # LeftoverLong(d)

\* the quantity of the records whose width rounds to the bucket of key
BucketQty(ps, key) ==
  LET in == { k \in DOMAIN ps : WidthKey(ps[k]) = key }
      sums[S \in SUBSET in] ==
        IF S = {} THEN 0
        ELSE LET k == CHOOSE k \in S : TRUE IN ps[k].qty + sums[S \ {k}]
  IN sums[in]

LargestBucketQty(ps) ==
  LET keys == { WidthKey(ps[k]) : k \in DOMAIN ps }
  IN IF keys = {} THEN 0
     ELSE CHOOSE n \in { BucketQty(ps, key) : key \in keys } :
            \A key \in keys : BucketQty(ps, key) <= n

\* C10: with a positive common width, the strip pass activates iff the
\* largest width bucket holds at least 70 % of the total quantity.
C10_Threshold ==
  (/\ pc # "packSheetsGuillotine"
   /\ detectCommonWidth(validPieces).commonWidth # <<>>
   /\ detectCommonWidth(validPieces).commonWidth # <<0>>)
    => (stripUsed <=> 10 * LargestBucketQty(validPieces) >= 7 * TotalQty(validPieces))

\* activation at exactly 70 %
C10_Witness ==
  /\ pc = "strip"
  /\ stripUsed
  /\ 10 * LargestBucketQty(validPieces) = 7 * TotalQty(validPieces)

\* the number of entries of warnings that are w
CountOf(w) == Cardinality({ k \in DOMAIN warnings : warnings[k] = w })

\* C11: a general-pass sheet attempt that places no item appends one
\* 'Some pieces could not be placed' warning and ends the run with the sheets
\* produced so far unchanged; no returned sheet is empty and the warning is
\* never given twice.
C11_StuckSheet ==
  /\ [][(pc = "general" /\ idx < Len(remaining) /\ idx' = idx)
          => /\ warnings' = Append(warnings, StuckWarning)
             /\ sheets' = sheets
             /\ visuals' = visuals
             /\ pc' = "done"]_vars
  /\ [](/\ CountOf(StuckWarning) <= 1
        /\ \A s \in DOMAIN sheets : sheets[s].pieces # <<>>
        /\ \A s \in DOMAIN visuals : visuals[s] # <<>>
        /\ Len(visuals) = Len(sheets))

\* a run that ended on a stuck attempt after producing sheets
C11_Witness ==
  /\ pc = "done"
  /\ CountOf(StuckWarning) = 1
  /\ Len(sheets) >= 1
  /\ idx < Len(remaining)

\* C12: a record of quantity 0 has no placement on any sheet, and a cut list
\* of such records alone yields no sheet and no warning.
C12_ZeroQtyIgnored ==
  /\ \A k \in DOMAIN pieces : pieces[k].qty = 0 => PlacedOf(pieces[k].line) = {}
  /\ (\A k \in DOMAIN pieces : pieces[k].qty = 0) => sheets = <<>> /\ warnings = <<>>

\* C13: a record with width 0 or height 0 has no placement on any sheet, and
\* a cut list of such records alone yields no sheet.
C13_ZeroAreaNoOp ==
  /\ \A k \in DOMAIN pieces :
       (pieces[k].width = 0 \/ pieces[k].height = 0) => PlacedOf(pieces[k].line) = {}
  /\ (\A k \in DOMAIN pieces : pieces[k].width = 0 \/ pieces[k].height = 0)
       => sheets = <<>>

\* the footprint of a grown by k to the right and downward
Grown(a, k) == [x |-> a.x, y |-> a.y, width |-> a.width + k, height |-> a.height + k]

\* C14: any two distinct placements of one returned sheet keep a gap of at
\* least the kerf along the x-axis or along the y-axis.
C14_KerfSpacing ==
  \A s \in DOMAIN visuals :
    \A a, b \in DOMAIN visuals[s] :
      a < b => ~PositiveOverlap(Grown(visuals[s][a], kerf), Grown(visuals[s][b], kerf))

\* the edge-banding units of the placements k.. of one sheet, each counted
\* from the record the placed instance came from
RECURSIVE PlacedEdges(_, _)
PlacedEdges(placed, k) ==
  IF k > Len(placed) THEN 0 ELSE placed[k].piece.edges + PlacedEdges(placed, k + 1)

\* C15: the edges total of every returned sheet is the sum of the
\* edge-banding units of its placements.
C15_EdgesTotal ==
  \A s \in DOMAIN sheets : sheets[s].edges = PlacedEdges(placements[s], 1)

\* a record with a side within 0.01 of 47.875, 48 or 96
EfficientRecord(p) ==
  \E d \in {47875000, 48000000, 96000000} :
     \/ (p.width - d < 10000 /\ d - p.width < 10000)
     \/ (p.height - d < 10000 /\ d - p.height < 10000)

\* one cut for a placement of an efficient record, two for any other
RECURSIVE PlacedCuts(_, _)
PlacedCuts(placed, k) ==
  IF k > Len(placed) THEN 0
  ELSE (IF EfficientRecord(placed[k].piece) THEN 1 ELSE 2) + PlacedCuts(placed, k + 1)

\* C16: the cuts of every returned sheet count one per placement of an
\* efficient record and two per placement of any other, rotated or not.
C16_CutCount ==
  \A s \in DOMAIN sheets : sheets[s].cuts = PlacedCuts(placements[s], 1)

\* a sheet with a rotated placement of an efficient record, a placement of a
\* record just inside the 0.01 band and one just outside it
C16_Witness ==
  /\ \E s \in DOMAIN placements :
       \E a, b \in DOMAIN placements[s] :
          /\ placements[s][a].rotated /\ EfficientRecord(placements[s][a].piece)
          /\ ~EfficientRecord(placements[s][b].piece)
  /\ \E s \in DOMAIN placements :
       \E a, b \in DOMAIN placements[s] :
          /\ placements[s][a].piece.originalWidth = "47.995"
          /\ placements[s][b].piece.originalWidth = "47.98"

\* the cut list `47.9 x 10 = 10PCS`
WorkedExample ==
  pieces = <<[line |-> 1, originalWidth |-> "47.9", originalHeight |-> "10",
              width |-> 47900000, height |-> 10000000, qty |-> 10, edges |-> 0]>>

\* C17: with kerf 0 the request 47.9 x 10, quantity 10, returns two sheets, of
\* 9 and 1 placements, every placement unrotated, and no warning.
C17_WorkedExample ==
  (WorkedExample /\ kerf = 0 /\ pc = "done") =>
    /\ Len(sheets) = 2
    /\ Len(placements) = 2
    /\ Len(placements[1]) = 9
    /\ Len(placements[2]) = 1
    /\ Len(visuals[1]) = 9
    /\ Len(visuals[2]) = 1
    /\ \A s \in DOMAIN placements :
         \A k \in DOMAIN placements[s] : ~placements[s][k].rotated
    /\ \A s \in DOMAIN sheets :
         \A k \in DOMAIN sheets[s].pieces : ~sheets[s].pieces[k].rotated
    /\ warnings = <<>>

\* the worked example packed by the strip pre-pass, run to its end
C17_Witness ==
  /\ WorkedExample
  /\ kerf = 0
  /\ pc = "done"
  /\ variant = "part_001"
  /\ stripUsed

\* the overlap test on closed intervals
ClosedOverlap(a, b) ==
  /\ a.x <= b.x + b.width /\ b.x <= a.x + a.width
  /\ a.y <= b.y + b.height /\ b.y <= a.y + a.height

\* the overlap test on open intervals
OpenOverlap(a, b) ==
  /\ a.x < b.x + b.width /\ b.x < a.x + a.width
  /\ a.y < b.y + b.height /\ b.y < a.y + a.height

\* C18: for every pair of distinct placements of one returned sheet the
\* closed-interval overlap test is false, for every kerf.
C18_ClosedNoOverlap ==
  \A s \in DOMAIN visuals :
    \A a, b \in DOMAIN visuals[s] :
      a < b => ~ClosedOverlap(visuals[s][a], visuals[s][b])

\* C18, amended: for every pair of distinct placements of one returned sheet
\* the overlap test with strict inequalities is false, for every kerf;
\* placements may share an edge or a corner.
C18_OpenNoOverlap ==
  \A s \in DOMAIN visuals :
    \A a, b \in DOMAIN visuals[s] :
      a # b => ~OpenOverlap(visuals[s][a], visuals[s][b])

\* a general-pass sheet packed with kerf 0 on which two placements share an edge
C18_Witness ==
  /\ kerf = 0
  /\ variant = "script"
  /\ pc = "done"
  /\ \E s \in DOMAIN visuals :
       \E a, b \in DOMAIN visuals[s] :
          /\ a # b
          /\ ClosedOverlap(visuals[s][a], visuals[s][b])
          /\ visuals[s][a].width > 0 /\ visuals[s][a].height > 0
          /\ visuals[s][b].width > 0 /\ visuals[s][b].height > 0

\* C19: with conservativeMode on, every sheet of the general pass holds
\* placements of at most 6 distinct (displayWidth, displayHeight) pairs; an
\* item whose pair would be the 7th is not placed there, also when its pair
\* is the transposition of a pair already on the sheet
DimKeys(placed) ==
  { <<placed[a].piece.originalWidth, placed[a].piece.originalHeight>> :
      a \in DOMAIN placed }

C19_ConservativeCap ==
  conservativeMode =>
    \A s \in DOMAIN placements :
      s > stripSheets => Cardinality(DimKeys(placements[s])) <= DistinctCap

\* C20: on every sheet of the general pass the still-unplaced items are
\* attempted in the sort order. A sheet attempts the items remaining[j] for
\* j = idx, idx + 1, ... in this order, so the claim says that whenever a
\* sheet is opened no unplaced item stands before one that the comparator
\* orders strictly first
C20_AttemptOrder ==
  pc = "general" =>
    \A k, m \in (idx + 1)..Len(remaining) :
      k < m => ~GeneralBefore(remaining[m], remaining[k])

\* C21: when a sheet is closed no unplaced item could still be placed on it.
\* General pass, conservative mode off: no pending item fits a free
\* rectangle of the sheet's bin in either orientation, kerf added. Strip
\* pass: no pending strip item fits under the parts of any column.
FitsEither(p, rect, k) ==
  \/ (p.width + k <= rect.width /\ p.height + k <= rect.height)
  \/ (p.height + k <= rect.width /\ p.width + k <= rect.height)

\* the parts drawn in column c (0-based) of a strip sheet
ColumnParts(placed, c) ==
  { a \in DOMAIN placed : placed[a].x = c * commonWidth }

ColumnUsed(placed, c) ==
  IF ColumnParts(placed, c) = {} THEN 0
  ELSE CHOOSE u \in { placed[a].y + placed[a].height : a \in ColumnParts(placed, c) } :
         \A a \in ColumnParts(placed, c) : placed[a].y + placed[a].height <= u

ColumnAdmits(placed, c, item) ==
  ColumnUsed(placed, c) + item.height
     + (IF ColumnParts(placed, c) # {} THEN kerf ELSE 0) <= sheetHeight + Eps

C21_SheetMaximal ==
  [][/\ (pc = "general" /\ ~conservativeMode /\ Len(sheets') > Len(sheets))
          => \A k \in (idx' + 1)..Len(remaining') :
               \A f \in DOMAIN freeRects' :
                 ~FitsEither(remaining'[k], freeRects'[f], kerf)
     /\ (pc = "strip" /\ Len(sheets') > Len(sheets))
          => \A k \in (i' + 1)..Len(stripItems') :
               \A c \in 0..(columnsPerSheet - 1) :
                 ~ColumnAdmits(placements'[Len(placements')], c, stripItems'[k])]_vars

\* a run with a strip pass of several sheets whose general pass has closed a
\* sheet and still has items pending
C21_Witness ==
  /\ pc = "general"
  /\ ~conservativeMode
  /\ stripSheets >= 2
  /\ Len(sheets) > stripSheets
  /\ idx < Len(remaining)

\* C22: after every successful insert no free rectangle of the bin lies
\* inside another one, for every two distinct positions of the list (two
\* equal rectangles lie inside each other)
Inside(a, b) ==
  /\ b.x <= a.x /\ a.x + a.width <= b.x + b.width
  /\ b.y <= a.y /\ a.y + a.height <= b.y + b.height

C22_Pruned ==
  lastInsert.node # Null =>
    \A a, b \in DOMAIN freeRects :
      a # b => ~Inside(freeRects[a], freeRects[b])

C22_Witness ==
  /\ lastInsert.node # Null
  /\ Len(usedRects) >= 2
  /\ Len(freeRects) >= 3

\* C23: after any sequence of inserts the free rectangles have positive
\* width and height, lie inside the sheet, share no interior with each other,
\* and together with the regions consumed by the successful inserts (the
\* nodes grown by the kerf) cover the sheet exactly: the areas add up to
\* sheetWidth * sheetHeight; so _pruneFreeList removes nothing.
\* Areas are counted in squares of 1/64 inch, which divides every length
\* offered to the bin under test.
Aligned(r) ==
  \A v \in {r.x, r.y, r.width, r.height} : v % AreaUnit = 0

AreaOf(r) == Area(r.width, r.height)

RECURSIVE AreaSum(_)
AreaSum(rects) == IF rects = <<>> THEN 0 ELSE AreaOf(Head(rects)) + AreaSum(Tail(rects))

Consumed == [u \in DOMAIN usedRects |-> Grown(usedRects[u], kerf)]

C23_Tiling ==
  pc = "bin" =>
    LET all == freeRects \o Consumed
        sheet == [x |-> 0, y |-> 0, width |-> sheetWidth, height |-> sheetHeight]
    IN /\ \A f \in DOMAIN freeRects :
            /\ freeRects[f].width > 0 /\ freeRects[f].height > 0
            /\ Inside(freeRects[f], sheet)
       /\ \A a, b \in DOMAIN all : a # b => ~PositiveOverlap(all[a], all[b])
       /\ \A a \in DOMAIN all : Aligned(all[a])
       /\ AreaSum(all) = AreaOf(sheet)
       /\ lastInsert.node # Null =>
            \E l \in {SplitAll(lastInsert.before, Grown(lastInsert.node, kerf), 1)} :
               /\ _pruneFreeList(l) = l
               /\ freeRects = l

C23_Witness ==
  /\ pc = "bin"
  /\ kerf > 0
  /\ Len(usedRects) >= 3
  /\ Len(freeRects) >= 3
  /\ lastInsert.node # Null

\* C24: a run of script.js that does not hit the sheet ceiling places every
\* item handed to packSheetsGuillotine that fits an empty sheet in some
\* orientation, kerf added, and returns the "could not be placed" warning
\* exactly when some item fits an empty sheet in neither orientation
FitsEmptySheet(p) == FitsEither(p, NewBin[1], kerf)

C24_Complete ==
  (variant = "script" /\ pc = "done" /\ CountOf(AbortWarning) = 0) =>
    /\ \A n \in DOMAIN validPieces :
         FitsEmptySheet(validPieces[n])
           => Cardinality(PlacedOf(validPieces[n].line)) = validPieces[n].qty
    /\ CountOf(StuckWarning) > 0
         <=> \E n \in DOMAIN validPieces :
               validPieces[n].qty > 0 /\ ~FitsEmptySheet(validPieces[n])

\* a finished run of script.js that placed several pieces over two sheets or
\* more and gave up on a piece that fits no sheet
C24_Witness ==
  /\ variant = "script" /\ pc = "done"
  /\ CountOf(StuckWarning) = 1
  /\ Len(sheets) >= 2
  /\ \E n \in DOMAIN validPieces :
       validPieces[n].qty > 0 /\ FitsEmptySheet(validPieces[n])

\* C25: a run that places every item of every record returns no warning
AllPlaced ==
  \A n \in DOMAIN validPieces :
    Cardinality(PlacedOf(validPieces[n].line)) = validPieces[n].qty

RECURSIVE SumCount(_)
SumCount(recs) == IF recs = <<>> THEN 0 ELSE Head(recs).count + SumCount(Tail(recs))

C26_ResultShape ==
  /\ [](/\ Len(sheets) = Len(visuals)
        /\ \A s \in DOMAIN sheets :
             /\ Len(visuals[s]) >= 1
             /\ sheets[s].pieces # <<>>
             /\ SumCount(sheets[s].pieces) = Len(visuals[s]))
  /\ [][(Len(sheets') > Len(sheets) /\ pc = "strip") => Len(sheets) = stripSheets]_vars
  /\ [][(Len(sheets') > Len(sheets) /\ pc = "general")
           => (stripSheets' = stripSheets /\ SubSeq(sheets', 1, Len(sheets)) = sheets)]_vars

\* a returned result with strip sheets, general sheets and a record that
\* counts several rectangles
C26_Witness ==
  /\ pc = "done"
  /\ stripSheets >= 1
  /\ Len(sheets) > stripSheets
  /\ \E s \in DOMAIN sheets : \E r \in DOMAIN sheets[s].pieces :
       sheets[s].pieces[r].count >= 2

\* C27: among the fitting candidates of an insert with the least
\* (leftoverShort, leftoverLong) the one from the earliest free rectangle is
\* chosen and, within that rectangle, the unrotated orientation before the
\* rotated one; a square piece is never returned as rotated
BestFitting ==
  { c \in Fitting :
      \A d \in Fitting :
        \/ LeftoverShort(c) < LeftoverShort(d)
        \/ (LeftoverShort(c) = LeftoverShort(d) /\ LeftoverLong(c) <= LeftoverLong(d)) }

FirstBest ==
  CHOOSE c \in BestFitting :
    \A d \in BestFitting : c[1] < d[1] \/ (c[1] = d[1] /\ (~c[2] \/ d[2]))

C27_TieBreak ==
  (lastInsert # NoInsert /\ lastInsert.node # Null) =>
    /\ lastInsert.node = [x |-> lastInsert.before[FirstBest[1]].x,
                          y |-> lastInsert.before[FirstBest[1]].y,
                          width |-> Oriented(FirstBest[2]).w,
                          height |-> Oriented(FirstBest[2]).h]
    /\ lastInsert.rotated = FirstBest[2]
    /\ lastInsert.width = lastInsert.height => ~lastInsert.rotated

\* an insert with several best candidates, in two rectangles and in both
\* orientations of one rectangle
C27_Witness ==
  /\ lastInsert # NoInsert
  /\ lastInsert.node # Null
  /\ \E c, d \in BestFitting : c[1] # d[1]
  /\ \E c, d \in BestFitting : c[1] = d[1] /\ c[2] # d[2]

\* C28: calculateSheets of part_002 terminates for every input. The loop
\* holds no state but sheets and remainingPieces, so it terminates exactly
\* when every pass of it appends a sheet: a pass that appends none leaves
\* both as they were and is repeated for ever.
C28_Terminates ==
  [][(pc = "calculateSheets" /\ iterations' > iterations)
        => Len(sheets') > Len(sheets)]_vars

\* the number of pieces of cut-list line n on the sheets of the strategy packer
RECURSIVE CountEntries(_, _)
CountEntries(entries, n) ==
  IF entries = <<>> THEN 0
  ELSE (IF Head(entries).piece.line = n THEN Head(entries).count ELSE 0)
       + CountEntries(Tail(entries), n)

RECURSIVE CountSheets(_, _)
CountSheets(ss, n) ==
  IF ss = <<>> THEN 0 ELSE CountEntries(Head(ss).pieces, n) + CountSheets(Tail(ss), n)

\* C29: after any number of sheets no record's remaining quantity is
\* negative and no record has more pieces on the sheets than were requested,
\* also when two records carry the same dimension text
C29_QtyNeverNegative ==
  /\ \A k \in DOMAIN remaining : remaining[k].qty >= 0
  /\ \A n \in DOMAIN pieces : CountSheets(sheets, n) <= pieces[n].qty

\* C30: no sheet built by tryPackSheet holds more piece area than the sheet
\* has, for each of the three strategies
C30_NoOverPacking ==
  /\ \A s \in DOMAIN sheets : sheets[s].usedArea <= SheetArea
  /\ \A s \in DOMAIN Strategies :
       tryPackSheet(remaining, Strategies[s]).usedArea <= SheetArea

====
